---- MODULE Spec2Model ----
(***************************************************************************)
(* A model of slideshow.py (KaraokeVideoMaker): SlideShowGenerator's       *)
(* constructor, create_music_driven_slideshow (catalog filter, poster      *)
(* fetch, audio open, sequence plan, render, concatenate, trim, frame      *)
(* capture, audio attach, encode) and the two numeric kernels of           *)
(* _create_slide_with_footer (aspect fit, footer alpha gradient).          *)
(*                                                                         *)
(* Durations are whole ticks (seconds, or any common unit of the audio and *)
(* slide durations).  File names are sequences of one-character strings.   *)
(* Paths are pairs <<directory, name>>, as os.path.join builds them; the   *)
(* image directory and the output directory are different directories, as  *)
(* in main().                                                              *)
(***************************************************************************)
EXTENDS Integers, Sequences, FiniteSets, TLC

VARIABLES
    pc,                    \* position in __init__ / create_music_driven_slideshow
    dir_exists,            \* os.path.exists(images_dir)
    music_exists,          \* os.path.exists(music_path)
    listing,               \* os.listdir(images_dir): a set of file names
    singers,               \* song_info['Singers Images']
    slide_duration,        \* parameter slide_duration
    capture_time,          \* parameter capture_time
    image_files,           \* the filtered catalog (a list of paths)
    poster,                \* the poster file on disk: "none", "ok" or "bad"
    audio,                 \* "closed", "open" or "released"
    total_duration,        \* audio.duration
    slides_needed,
    repeats_needed,
    passes,                \* iterations of the shuffle loop done so far
    extended_image_list,   \* the plan
    clips,                 \* the rendered slides: the duration of each
    final_clip,            \* the duration of final_clip, -1 before it exists
    audio_attached,        \* final_clip.with_audio(audio) has run
    frame_written,         \* the still frame file exists
    video_written,         \* the video file exists
    error,                 \* the exception that ended the run, or "none"
    img_w, img_h,          \* the source image's size (aspect fit)
    new_width, new_height, \* the resize target
    paste_x, paste_y,      \* the paste offsets
    fit_pc,                \* position in the aspect-fit part
    footer_y,              \* the footer loop's row counter
    footer                 \* the footer's alpha channel: per row, the alphas in it

pipeVars == <<pc, dir_exists, music_exists, listing, singers, slide_duration,
              capture_time, image_files, poster, audio, total_duration,
              slides_needed, repeats_needed, passes, extended_image_list,
              clips, final_clip, audio_attached, frame_written,
              video_written, error>>
fitVars == <<img_w, img_h, new_width, new_height, paste_x, paste_y, fit_pc>>
footerVars == <<footer_y, footer>>
vars == <<pipeVars, fitVars, footerVars>>

(***************************************************************************)
(* Bounds of the model.                                                    *)
(***************************************************************************)
MaxDuration == 6
MaxSlide == 2
MaxCapture == 6
MaxSmallDim == 48

(***************************************************************************)
(* Program constants.                                                      *)
(***************************************************************************)
width == 1920
height == 1080
footer_height == 120
MaxAlpha == 160

(***************************************************************************)
(* Strings as sequences of characters.                                     *)
(***************************************************************************)
UpperCase == <<"A","B","C","D","E","F","G","H","I","J","K","L","M",
               "N","O","P","Q","R","S","T","U","V","W","X","Y","Z">>
LowerCase == <<"a","b","c","d","e","f","g","h","i","j","k","l","m",
               "n","o","p","q","r","s","t","u","v","w","x","y","z">>

LowerChar(c) ==
    IF \E i \in 1..26 : UpperCase[i] = c
    THEN LowerCase[CHOOSE i \in 1..26 : UpperCase[i] = c]
    ELSE c

\* str.lower
Lower(s) == [i \in 1..Len(s) |-> LowerChar(s[i])]

\* str.startswith
StartsWith(s, p) ==
    /\ Len(p) <= Len(s)
    /\ \A i \in 1..Len(p) : s[i] = p[i]

\* str.endswith
EndsWith(s, p) ==
    /\ Len(p) <= Len(s)
    /\ \A i \in 1..Len(p) : s[Len(s) - Len(p) + i] = p[i]

Extensions == { <<".","j","p","g">>, <<".","j","p","e","g">>,
                <<".","p","n","g">>, <<".","b","m","p">>,
                <<".","g","i","f">> }

\* The condition of the list comprehension that builds image_files.
IsImageFile(f, keys) ==
    /\ \E e \in Extensions : EndsWith(Lower(f), e)
    /\ \E i \in 1..Len(keys) : StartsWith(f, keys[i] \o <<".">>)

(***************************************************************************)
(* The directory contents and song templates the model draws from.         *)
(***************************************************************************)
FilePool == { <<"a",".","1",".","j","p","g">>,      \* a.1.jpg
              <<"a",".","2",".","P","N","G">>,      \* a.2.PNG
              <<"b",".","g","i","f">>,              \* b.gif
              <<"a","b",".","j","p","g">>,          \* ab.jpg
              <<"a",".","t","x","t">> }             \* a.txt

SingerLists == { << <<"a">> >>, << <<"a">>, <<"b">> >>, << <<"c">> >> }

ImagesDir == "images"
OutputDir == "output"
PosterName == <<"S"," ","P","o","s","t","e","r",".","j","p","g">>
PosterPath == <<OutputDir, PosterName>>

RECURSIVE SetToSeq(_)
SetToSeq(S) ==
    IF S = {} THEN <<>>
    ELSE LET x == CHOOSE y \in S : TRUE
         IN  <<x>> \o SetToSeq(S \ {x})

\* image_files: the matching names, joined to the image directory.  The
\* order of os.listdir is arbitrary; the list is only ever shuffled.
FilterImages(names, keys) ==
    LET hits == SetToSeq({f \in names : IsImageFile(f, keys)})
    IN  [i \in 1..Len(hits) |-> <<ImagesDir, hits[i]>>]

(***************************************************************************)
(* Arithmetic helpers.                                                     *)
(***************************************************************************)
CeilDivFloor(a, b) == a \div b

\* math.ceil(a / b) for a >= 0, b > 0
CeilDiv(a, b) == (a + b - 1) \div b

RECURSIVE SumSeq(_)
SumSeq(s) == IF s = <<>> THEN 0 ELSE Head(s) + SumSeq(Tail(s))

Min(a, b) == IF a <= b THEN a ELSE b

\* list[:n] for n >= 0
Prefix(s, n) == SubSeq(s, 1, Min(Len(s), n))

ShufflesWithRepeats(files) ==
    { [i \in 1..Len(files) |-> files[p[i]]] :
          p \in [1..Len(files) -> 1..Len(files)] }

\* Every outcome of random.shuffle on a copy of files: its permutations.
Shuffles(files) ==
    { [i \in 1..Len(files) |-> files[p[i]]] :
          p \in { q \in [1..Len(files) -> 1..Len(files)] :
                    \A i, j \in 1..Len(files) : i # j => q[i] # q[j] } }

NoTrim(duration, audio_duration) == duration

\* if final_clip.duration > total_duration: with_duration(total_duration)
TrimmedDuration(duration, audio_duration) ==
    IF duration > audio_duration THEN audio_duration ELSE duration

CaptureDueInclusive(t, duration) == t <= duration

\* if capture_time < final_clip.duration
CaptureDue(t, duration) == t < duration

NeverEmpty(files) == FALSE

\* if not image_files
CatalogEmpty(files) == files = <<>>

\* extended_image_list.extend(shuffled_images)
Extend(list, shuffled) == list \o shuffled

StepAfterCaptureFirst(p) ==
    CASE p = "init" -> "list"
      [] p = "list" -> "download"
      [] p = "download" -> "open_audio"
      [] p = "open_audio" -> "plan"
      [] p = "plan" -> "shuffle"
      [] p = "shuffle" -> "render"
      [] p = "render" -> "capture"
      [] p = "capture" -> "trim"
      [] p = "trim" -> "attach"
      [] p = "attach" -> "write"
      [] p = "write" -> "close"
      [] p = "close" -> "done"

\* The order of the statements of __init__ and create_music_driven_slideshow.
StepAfter(p) ==
    CASE p = "init" -> "list"
      [] p = "list" -> "download"
      [] p = "download" -> "open_audio"
      [] p = "open_audio" -> "plan"
      [] p = "plan" -> "shuffle"
      [] p = "shuffle" -> "render"
      [] p = "render" -> "trim"
      [] p = "trim" -> "capture"
      [] p = "capture" -> "attach"
      [] p = "attach" -> "write"
      [] p = "write" -> "close"
      [] p = "close" -> "done"

(***************************************************************************)
(* The pipeline: SlideShowGenerator.__init__ and                           *)
(* create_music_driven_slideshow.                                          *)
(***************************************************************************)
FitIdle ==
    /\ img_w = 1 /\ img_h = 1
    /\ new_width = -1 /\ new_height = -1
    /\ paste_x = -1 /\ paste_y = -1
    /\ fit_pc = "idle"

FooterIdle ==
    /\ footer_y = 0
    /\ footer = <<>>

PipelineIdle ==
    /\ pc = "idle"
    /\ dir_exists = TRUE /\ music_exists = TRUE
    /\ listing = {} /\ singers = <<>>
    /\ slide_duration = 1 /\ capture_time = 0
    /\ image_files = <<>> /\ poster = "none" /\ audio = "closed"
    /\ total_duration = 0 /\ slides_needed = 0 /\ repeats_needed = 0
    /\ passes = 0 /\ extended_image_list = <<>> /\ clips = <<>>
    /\ final_clip = -1 /\ audio_attached = FALSE
    /\ frame_written = FALSE /\ video_written = FALSE
    /\ error = "none"

Init ==
    /\ pc = "init"
    /\ dir_exists \in BOOLEAN
    /\ music_exists \in BOOLEAN
    /\ listing \in (IF dir_exists THEN SUBSET FilePool ELSE {{}})
    /\ singers \in SingerLists
    /\ slide_duration \in 1..MaxSlide
    /\ capture_time \in 0..MaxCapture
    /\ image_files = <<>> /\ poster = "none" /\ audio = "closed"
    /\ total_duration = 0 /\ slides_needed = 0 /\ repeats_needed = 0
    /\ passes = 0 /\ extended_image_list = <<>> /\ clips = <<>>
    /\ final_clip = -1 /\ audio_attached = FALSE
    /\ frame_written = FALSE /\ video_written = FALSE
    /\ error = "none"
    /\ FitIdle /\ FooterIdle

Raise(kind) ==
    /\ pc' = "error"
    /\ error' = kind

\* __init__: the two existence checks.
Construct ==
    /\ pc = "init"
    /\ IF ~dir_exists THEN Raise("ValueError: image directory")
       ELSE IF ~music_exists THEN Raise("ValueError: music file")
       ELSE pc' = StepAfter(pc) /\ UNCHANGED error
    /\ UNCHANGED <<dir_exists, music_exists, listing, singers, slide_duration,
                   capture_time, image_files, poster, audio, total_duration,
                   slides_needed, repeats_needed, passes, extended_image_list,
                   clips, final_clip, audio_attached, frame_written,
                   video_written>>

\* The catalog filter and the empty-catalog check.
ListImages ==
    /\ pc = "list"
    /\ image_files' = FilterImages(listing, singers)
    /\ IF CatalogEmpty(image_files') THEN Raise("ValueError: no image files")
       ELSE pc' = StepAfter(pc) /\ UNCHANGED error
    /\ UNCHANGED <<dir_exists, music_exists, listing, singers, slide_duration,
                   capture_time, poster, audio, total_duration,
                   slides_needed, repeats_needed, passes, extended_image_list,
                   clips, final_clip, audio_attached, frame_written,
                   video_written>>

\* download_image: subprocess.run without check.  wget succeeds ("ok"),
\* exits non-zero leaving no usable file ("bad", no exception), or cannot
\* be started at all (subprocess.run raises).
DownloadPoster ==
    /\ pc = "download"
    /\ \E outcome \in {"ok", "bad", "raise"} :
          IF outcome = "raise"
          THEN Raise("poster fetch") /\ UNCHANGED poster
          ELSE poster' = outcome /\ pc' = StepAfter(pc) /\ UNCHANGED error
    /\ UNCHANGED <<dir_exists, music_exists, listing, singers, slide_duration,
                   capture_time, image_files, audio, total_duration,
                   slides_needed, repeats_needed, passes, extended_image_list,
                   clips, final_clip, audio_attached, frame_written,
                   video_written>>

\* AudioFileClip(self.music_path) and audio.duration.
OpenAudio ==
    /\ pc = "open_audio"
    /\ \E ok \in BOOLEAN, d \in 0..MaxDuration :
          IF ~ok
          THEN Raise("audio open") /\ UNCHANGED <<audio, total_duration>>
          ELSE /\ audio' = "open"
               /\ total_duration' = d
               /\ pc' = StepAfter(pc)
               /\ UNCHANGED error
    /\ UNCHANGED <<dir_exists, music_exists, listing, singers, slide_duration,
                   capture_time, image_files, poster,
                   slides_needed, repeats_needed, passes, extended_image_list,
                   clips, final_clip, audio_attached, frame_written,
                   video_written>>

\* slides_needed, repeats_needed and the list that starts with the poster.
ComputePlan ==
    /\ pc = "plan"
    /\ slides_needed' = CeilDiv(total_duration, slide_duration)
    /\ IF Len(image_files) = 0
       THEN /\ Raise("ZeroDivisionError")
            /\ UNCHANGED <<repeats_needed, extended_image_list>>
       ELSE /\ repeats_needed' = CeilDiv(slides_needed', Len(image_files))
            /\ extended_image_list' = <<PosterPath>>
            /\ pc' = StepAfter(pc)
            /\ UNCHANGED error
    /\ UNCHANGED <<dir_exists, music_exists, listing, singers, slide_duration,
                   capture_time, image_files, poster, audio, total_duration,
                   passes, clips, final_clip, audio_attached, frame_written,
                   video_written>>

\* One iteration of the loop: copy, shuffle, extend.
ShufflePass ==
    /\ pc = "shuffle"
    /\ passes < repeats_needed
    /\ \E shuffled_images \in Shuffles(image_files) :
          extended_image_list' = Extend(extended_image_list, shuffled_images)
    /\ passes' = passes + 1
    /\ UNCHANGED <<pc, dir_exists, music_exists, listing, singers,
                   slide_duration, capture_time, image_files, poster, audio,
                   total_duration, slides_needed, repeats_needed,
                   clips, final_clip, audio_attached, frame_written,
                   video_written, error>>

\* extended_image_list = extended_image_list[:slides_needed]
Truncate ==
    /\ pc = "shuffle"
    /\ passes = repeats_needed
    /\ extended_image_list' = Prefix(extended_image_list, slides_needed)
    /\ pc' = StepAfter(pc)
    /\ UNCHANGED <<dir_exists, music_exists, listing, singers,
                   slide_duration, capture_time, image_files, poster, audio,
                   total_duration, slides_needed, repeats_needed, passes,
                   clips, final_clip, audio_attached, frame_written,
                   video_written, error>>

\* One call of _create_slide_with_footer.  Image.open fails on the poster
\* when the fetch left no usable file, and on any catalog file that does
\* not decode.
RenderSlide ==
    /\ pc = "render"
    /\ Len(clips) < Len(extended_image_list)
    /\ LET img_path == extended_image_list[Len(clips) + 1]
       IN  \E decodes \in (IF img_path = PosterPath
                           THEN {poster = "ok"} ELSE BOOLEAN) :
              IF decodes
              THEN /\ clips' = Append(clips, slide_duration)
                   /\ UNCHANGED <<pc, error>>
              ELSE Raise("image decode") /\ UNCHANGED clips
    /\ UNCHANGED <<dir_exists, music_exists, listing, singers,
                   slide_duration, capture_time, image_files, poster, audio,
                   total_duration, slides_needed, repeats_needed, passes,
                   extended_image_list, final_clip, audio_attached,
                   frame_written, video_written>>

\* concatenate_videoclips(clips, method='chain').  What the library does
\* with an empty list is not decided by this repository: it raises, or it
\* returns a clip of duration 0.
Concatenate ==
    /\ pc = "render"
    /\ Len(clips) = Len(extended_image_list)
    /\ \E raises \in (IF clips = <<>> THEN BOOLEAN ELSE {FALSE}) :
          IF raises
          THEN Raise("concatenate: no clips") /\ UNCHANGED final_clip
          ELSE /\ final_clip' = SumSeq(clips)
               /\ pc' = StepAfter(pc)
               /\ UNCHANGED error
    /\ UNCHANGED <<dir_exists, music_exists, listing, singers,
                   slide_duration, capture_time, image_files, poster, audio,
                   total_duration, slides_needed, repeats_needed, passes,
                   extended_image_list, clips, audio_attached,
                   frame_written, video_written>>

\* Trim to match the audio duration.
Trim ==
    /\ pc = "trim"
    /\ final_clip' = TrimmedDuration(final_clip, total_duration)
    /\ pc' = StepAfter(pc)
    /\ UNCHANGED <<dir_exists, music_exists, listing, singers,
                   slide_duration, capture_time, image_files, poster, audio,
                   total_duration, slides_needed, repeats_needed, passes,
                   extended_image_list, clips, audio_attached,
                   frame_written, video_written, error>>

\* Capture the frame and save it, when capture_time is inside the clip.
Capture ==
    /\ pc = "capture"
    /\ frame_written' = (frame_written \/ CaptureDue(capture_time, final_clip))
    /\ pc' = StepAfter(pc)
    /\ UNCHANGED <<dir_exists, music_exists, listing, singers,
                   slide_duration, capture_time, image_files, poster, audio,
                   total_duration, slides_needed, repeats_needed, passes,
                   extended_image_list, clips, final_clip, audio_attached,
                   video_written, error>>

\* final_clip.with_audio(audio)
AttachAudio ==
    /\ pc = "attach"
    /\ audio_attached' = TRUE
    /\ pc' = StepAfter(pc)
    /\ UNCHANGED <<dir_exists, music_exists, listing, singers,
                   slide_duration, capture_time, image_files, poster, audio,
                   total_duration, slides_needed, repeats_needed, passes,
                   extended_image_list, clips, final_clip,
                   frame_written, video_written, error>>

\* final_clip.write_videofile(...)
WriteVideo ==
    /\ pc = "write"
    /\ video_written' = TRUE
    /\ pc' = StepAfter(pc)
    /\ UNCHANGED <<dir_exists, music_exists, listing, singers,
                   slide_duration, capture_time, image_files, poster, audio,
                   total_duration, slides_needed, repeats_needed, passes,
                   extended_image_list, clips, final_clip, audio_attached,
                   frame_written, error>>

\* final_clip.close(), audio.close(), return.
Close ==
    /\ pc = "close"
    /\ audio' = "released"
    /\ pc' = StepAfter(pc)
    /\ UNCHANGED <<dir_exists, music_exists, listing, singers,
                   slide_duration, capture_time, image_files, poster,
                   total_duration, slides_needed, repeats_needed, passes,
                   extended_image_list, clips, final_clip, audio_attached,
                   frame_written, video_written, error>>

Next ==
    \/ (Construct /\ UNCHANGED <<fitVars, footerVars>>)
    \/ (ListImages /\ UNCHANGED <<fitVars, footerVars>>)
    \/ (DownloadPoster /\ UNCHANGED <<fitVars, footerVars>>)
    \/ (OpenAudio /\ UNCHANGED <<fitVars, footerVars>>)
    \/ (ComputePlan /\ UNCHANGED <<fitVars, footerVars>>)
    \/ (ShufflePass /\ UNCHANGED <<fitVars, footerVars>>)
    \/ (Truncate /\ UNCHANGED <<fitVars, footerVars>>)
    \/ (RenderSlide /\ UNCHANGED <<fitVars, footerVars>>)
    \/ (Concatenate /\ UNCHANGED <<fitVars, footerVars>>)
    \/ (Trim /\ UNCHANGED <<fitVars, footerVars>>)
    \/ (Capture /\ UNCHANGED <<fitVars, footerVars>>)
    \/ (AttachAudio /\ UNCHANGED <<fitVars, footerVars>>)
    \/ (WriteVideo /\ UNCHANGED <<fitVars, footerVars>>)
    \/ (Close /\ UNCHANGED <<fitVars, footerVars>>)

Spec == Init /\ [][Next]_vars

(***************************************************************************)
(* _create_slide_with_footer, aspect fit.  img_ratio = img.width /         *)
(* img.height is a double; int() truncates the double product or quotient. *)
(* The operators below compute that result in integers: the sign of the    *)
(* rounding error of w / h, and whether it pushes an exactly integral      *)
(* product or quotient below the integer.                                  *)
(***************************************************************************)
RECURSIVE Pow2(_)
Pow2(k) == IF k <= 0 THEN 1 ELSE 2 * Pow2(k - 1)

\* The largest j with 2^j <= n / d  (n, d > 0).
RECURSIVE Log2Up(_, _, _)
Log2Up(n, d, j) == IF d * Pow2(j + 1) <= n THEN Log2Up(n, d, j + 1) ELSE j
RECURSIVE Log2Down(_, _, _)
Log2Down(n, d, j) == IF n * Pow2(-j) < d THEN Log2Down(n, d, j - 1) ELSE j
FloorLog2(n, d) ==
    IF n <= 0 THEN 0
    ELSE IF n >= d THEN Log2Up(n, d, 0) ELSE Log2Down(n, d, 0)

\* (r * 2^steps) mod h, sixteen doublings at a time (h < 2^15)
RECURSIVE ShiftMod(_, _, _)
ShiftMod(r, h, steps) ==
    IF steps <= 16 THEN (r * Pow2(steps)) % h
    ELSE ShiftMod((r * Pow2(16)) % h, h, steps - 16)

\* What of w / h lies beyond the 53 bits of a double's significand, as a
\* numerator over h.
RatioRem(w, h) == ShiftMod(w % h, h, 52 - FloorLog2(w, h))

\* The double w / h is above the quotient (rounded up).
RatioRoundedUp(w, h) == 2 * RatioRem(w, h) > h

\* img_ratio > target_ratio
Wider(w, h) == w * height > width * h

\* int(self.width / img_ratio)
ScaledHeight(w, h) ==
    LET n == width * h
        q == n \div w
        r == RatioRem(w, h)
        j == FloorLog2(w, h)
        k == FloorLog2(q, 1)
        t == j - k + 1 + (IF Pow2(k) = q THEN 1 ELSE 0)
    IN  IF n % w # 0 \/ r = 0 \/ ~RatioRoundedUp(w, h) THEN q
        ELSE IF (IF t >= 0 THEN q * (h - r) * Pow2(t) > w
                           ELSE q * (h - r) > w * Pow2(-t))
             THEN q - 1 ELSE q

\* int(self.height * img_ratio)
ScaledWidth(w, h) ==
    LET n == height * w
        q == n \div h
        r == RatioRem(w, h)
        j == FloorLog2(w, h)
        k == FloorLog2(q, 1)
        t == k - j - 1 - (IF Pow2(k) = q THEN 1 ELSE 0)
    IN  IF n % h # 0 \/ r = 0 \/ RatioRoundedUp(w, h) THEN q
        ELSE IF (IF t >= 0 THEN height * r > h * Pow2(t)
                           ELSE height * r * Pow2(-t) > h)
             THEN q - 1 ELSE q

\* The sizes of the source images the aspect-fit model draws from.
Dims == (1..MaxSmallDim) \cup {height, height + 1, width, width + 1, 2 * width}

InitFit ==
    /\ PipelineIdle /\ FooterIdle
    /\ img_w \in Dims
    /\ img_h \in Dims
    /\ new_width = -1 /\ new_height = -1
    /\ paste_x = -1 /\ paste_y = -1
    /\ fit_pc = "open"

\* Calculate resize dimensions.
FitSize ==
    /\ fit_pc = "open"
    /\ IF Wider(img_w, img_h)
       THEN new_width' = width /\ new_height' = ScaledHeight(img_w, img_h)
       ELSE new_height' = height /\ new_width' = ScaledWidth(img_w, img_h)
    /\ fit_pc' = "resize"
    /\ UNCHANGED <<img_w, img_h, paste_x, paste_y>>

\* img.resize((new_width, new_height), LANCZOS): the imaging library
\* refuses a target with a side below 1.
FitResize ==
    /\ fit_pc = "resize"
    /\ fit_pc' = (IF new_width < 1 \/ new_height < 1 THEN "error" ELSE "paste")
    /\ UNCHANGED <<img_w, img_h, new_width, new_height, paste_x, paste_y>>

\* Paste main image.
FitPaste ==
    /\ fit_pc = "paste"
    /\ paste_x' = (width - new_width) \div 2
    /\ paste_y' = (height - new_height) \div 2
    /\ fit_pc' = "done"
    /\ UNCHANGED <<img_w, img_h, new_width, new_height>>

NextFit ==
    \/ (FitSize /\ UNCHANGED <<pipeVars, footerVars>>)
    \/ (FitResize /\ UNCHANGED <<pipeVars, footerVars>>)
    \/ (FitPaste /\ UNCHANGED <<pipeVars, footerVars>>)

SpecFit == InitFit /\ [][NextFit]_vars

(***************************************************************************)
(* _create_slide_with_footer, the footer gradient.                         *)
(***************************************************************************)
RECURSIVE Gcd(_, _)
Gcd(a, b) == IF b = 0 THEN a ELSE Gcd(b, a % b)

\* a <= (y / footer_height) ^ 1.5 * 160, squared and cleared of fractions
AtMostGradient(a, y) ==
    LET g == Gcd(MaxAlpha, footer_height)
        an == a * (footer_height \div g)
        yn == y * (MaxAlpha \div g)
    IN  an * an * footer_height <= yn * yn * y

\* 2a - 1 <= 2 * (y / footer_height) ^ 1.5 * 160: a is at most the value
\* rounded to the nearest integer
AtMostRounded(a, y) ==
    LET g == Gcd(MaxAlpha, footer_height)
        an == (2 * a - 1) * (footer_height \div g)
        yn == 2 * y * (MaxAlpha \div g)
    IN  a = 0 \/ an * an * footer_height <= yn * yn * y

AlphaRounded(y) ==
    CHOOSE a \in 0..MaxAlpha :
        AtMostRounded(a, y) /\ (a = MaxAlpha \/ ~AtMostRounded(a + 1, y))

\* alpha = int((y / self.footer_height) ** 1.5 * 160)
Alpha(y) ==
    CHOOSE a \in 0..MaxAlpha :
        AtMostGradient(a, y) /\ (a = MaxAlpha \/ ~AtMostGradient(a + 1, y))

InitFooter ==
    /\ PipelineIdle /\ FitIdle
    /\ footer_y = 0
    /\ footer = <<>>

\* One iteration of the loop over y: the row's alpha, then putpixel for
\* every x of the row.  A row of the footer is kept as the set of the alpha
\* values its pixels hold.
FooterRow ==
    /\ footer_y < footer_height
    /\ \E alpha \in {Alpha(footer_y)} :
          footer' = Append(footer, { alpha : x \in 0..(width - 1) })
    /\ footer_y' = footer_y + 1

NextFooter ==
    \/ (FooterRow /\ UNCHANGED <<pipeVars, fitVars>>)

SpecFooter == InitFooter /\ [][NextFooter]_vars

(***************************************************************************)
(* The claims.                                                             *)
(***************************************************************************)
\* The plan is final: Truncate has run.
Planned ==
    \/ pc \in {"render", "trim", "capture", "attach", "write", "close", "done"}
    \/ pc = "error" /\ error \in {"image decode", "concatenate: no clips"}

\* The paths of the filtered catalog.
Catalog == { image_files[i] : i \in 1..Len(image_files) }

\* C1: once the plan is built its length is exactly ceil(D / S), the least
\* L with L * S >= D, so plan length * S >= D; and before truncation the
\* poster plus the repeats_needed passes hold at least that many entries.
C1_PlanLength ==
    /\ Planned =>
          /\ Len(extended_image_list) * slide_duration >= total_duration
          /\ (Len(extended_image_list) - 1) * slide_duration < total_duration
          /\ Len(extended_image_list) = slides_needed
    /\ (pc = "shuffle" /\ passes = repeats_needed) =>
          /\ Len(extended_image_list) = 1 + repeats_needed * Len(image_files)
          /\ Len(extended_image_list) >= slides_needed
          /\ Len(extended_image_list) * slide_duration >= total_duration

\* C1 witness: a plan of three or more entries, built from two or more
\* passes, that truncation shortened and that overshoots the audio.
C1_Witness ==
    /\ pc = "render"
    /\ Len(extended_image_list) >= 3
    /\ repeats_needed >= 2
    /\ 1 + repeats_needed * Len(image_files) > Len(extended_image_list)
    /\ Len(extended_image_list) * slide_duration > total_duration

\* C2: the first entry of every plan is the poster, and every later entry
\* is a catalog path, never the poster.
C2_PosterFirst ==
    Planned =>
       /\ Len(extended_image_list) >= 1
       /\ extended_image_list[1] = PosterPath
       /\ \A i \in 2..Len(extended_image_list) :
             /\ extended_image_list[i] \in Catalog
             /\ extended_image_list[i] # PosterPath

\* C3: the concatenated duration is plan length * S, and after the trim the
\* timeline's duration is the audio duration exactly.
C3_TrimmedToAudio ==
    /\ pc = "trim" =>
          final_clip = Len(extended_image_list) * slide_duration
    /\ pc \in {"capture", "attach", "write", "close", "done"} =>
          final_clip = total_duration

\* C3 witness: a timeline whose slides ran past the audio and was cut.
C3_Witness ==
    /\ pc = "capture"
    /\ total_duration > 0
    /\ Len(clips) * slide_duration > total_duration
    /\ final_clip = total_duration

\* C4: an empty plan is never produced or handed on: with slides_needed = 0
\* planning ends in an error.
C4_NoEmptyPlan ==
    Planned => extended_image_list # <<>>

\* C5 as claimed: an error leaves no frame and no video file, and both
\* files are written only after render, concatenate, trim and audio attach.
C5_FilesAfterWholeTimeline ==
    /\ pc = "error" => ~frame_written /\ ~video_written
    /\ frame_written => audio_attached
    /\ video_written => audio_attached

\* C5 as amended: an error leaves no frame and no video file; the frame is
\* written only after render, concatenate and trim (and before the audio is
\* attached), the video only after the audio is attached.
C5_FilesAfterTrim ==
    /\ pc = "error" => ~frame_written /\ ~video_written
    /\ frame_written =>
          /\ pc \in {"attach", "write", "close", "done"}
          /\ Len(clips) = Len(extended_image_list)
          /\ final_clip = TrimmedDuration(SumSeq(clips), total_duration)
    /\ video_written =>
          /\ audio_attached
          /\ pc \in {"close", "done"}
    /\ (pc = "attach" /\ CaptureDue(capture_time, final_clip)) =>
          frame_written /\ ~audio_attached

\* C5 witness: the frame file exists while the audio is not yet attached.
C5_Witness ==
    /\ pc = "attach"
    /\ frame_written
    /\ ~audio_attached
    /\ ~video_written

\* No file of the listing has a raster extension (whatever its case) and
\* begins with a singer key followed by a dot.
NoCatalogMatch ==
    \A f \in listing :
       ~ /\ \E e \in Extensions :
               /\ Len(f) >= Len(e)
               /\ Lower(SubSeq(f, Len(f) - Len(e) + 1, Len(f))) = e
         /\ \E i \in 1..Len(singers) :
               /\ Len(f) >= Len(singers[i]) + 1
               /\ SubSeq(f, 1, Len(singers[i])) = singers[i]
               /\ f[Len(singers[i]) + 1] = "."

\* C6: with no matching file, create_music_driven_slideshow raises right
\* after the filter: no poster was fetched, no audio opened, no slide
\* rendered.
C6_EmptyCatalogFirst ==
    (pc \notin {"init", "list"} /\ NoCatalogMatch
       /\ error \notin {"ValueError: image directory", "ValueError: music file"})
    => /\ pc = "error"
       /\ error = "ValueError: no image files"
       /\ poster = "none"
       /\ audio = "closed"
       /\ clips = <<>>
       /\ extended_image_list = <<>>

\* C6 witness: a directory with files, none of them a match, was rejected.
C6_Witness ==
    /\ pc = "error"
    /\ error = "ValueError: no image files"
    /\ <<"a","b",".","j","p","g">> \in listing
    /\ <<"a",".","t","x","t">> \in listing
    /\ singers = << <<"a">> >>

\* C7: within one pass of the body (the entries after the poster, N at a
\* time) no image appears twice.
C7_PassesAreDistinct ==
    LET n == Len(image_files)
        body == IF extended_image_list = <<>> THEN <<>>
                ELSE Tail(extended_image_list)
    IN  \A i, j \in 1..Len(body) :
           (i # j /\ (i - 1) \div n = (j - 1) \div n) => body[i] # body[j]

\* C7 witness: a final plan over two or more images whose second pass kept
\* two or more entries, one image showing in both passes.
C7_Witness ==
    /\ pc = "render"
    /\ Len(image_files) >= 2
    /\ Len(extended_image_list) >= Len(image_files) + 3
    /\ extended_image_list[2] = extended_image_list[Len(image_files) + 3]

\* C8: past the capture step the frame file exists exactly when
\* capture_time is below the trimmed duration, and no run fails once the
\* timeline exists.
C8_FrameIffInside ==
    /\ pc \in {"attach", "write", "close", "done"} =>
          (frame_written <=> capture_time < final_clip)
    /\ (pc \in {"attach", "write", "close", "done"} /\ capture_time >= final_clip)
          => ~frame_written /\ error = "none"
    /\ final_clip >= 0 => pc # "error"

\* C8 witness: capture_time equal to the trimmed duration: no frame, and the
\* run went on to write the video.
C8_Witness ==
    /\ pc = "done"
    /\ capture_time = final_clip
    /\ final_clip > 0
    /\ ~frame_written
    /\ video_written

\* C9: the resize target fits the canvas with both sides at least 1, the
\* side that fills the canvas chosen by the aspect ratio, and the paste
\* offsets are not negative.
C9_FitsCanvas ==
    /\ fit_pc \in {"resize", "paste", "done", "error"} =>
          /\ 1 <= new_width /\ new_width <= width
          /\ 1 <= new_height /\ new_height <= height
          /\ IF img_w * height > width * img_h
             THEN new_width = width ELSE new_height = height
    /\ fit_pc = "done" => paste_x >= 0 /\ paste_y >= 0

\* C10 as claimed: every alpha of row y is round((y / footer_height)^1.5 *
\* 160), the same across the row; alpha(0) = 0, alpha never decreases with
\* y and never exceeds 160.
C10_AlphaRounded ==
    \A r \in 1..Len(footer) :
       /\ Cardinality(footer[r]) = 1
       /\ \A a \in footer[r] :
             /\ a \in 0..MaxAlpha
             /\ AtMostRounded(a, r - 1)
             /\ ~AtMostRounded(a + 1, r - 1)
             /\ (r = 1 => a = 0)
             /\ (r > 1 => \A b \in footer[r - 1] : b <= a)

\* C10 as amended: every alpha of row y is (y / footer_height)^1.5 * 160
\* truncated to an integer, the same across the row; alpha(0) = 0, alpha
\* never decreases with y and never exceeds 160.
C10_AlphaTruncated ==
    \A r \in 1..Len(footer) :
       /\ Cardinality(footer[r]) = 1
       /\ \A a \in footer[r] :
             /\ a \in 0..MaxAlpha
             /\ AtMostGradient(a, r - 1)
             /\ ~AtMostGradient(a + 1, r - 1)
             /\ (r = 1 => a = 0)
             /\ (r > 1 => \A b \in footer[r - 1] : b <= a)

\* C10 witness: the whole band is written, and row 10 holds 3 where
\* rounding would give 4.
C10_Witness ==
    /\ footer_y = footer_height
    /\ Len(footer) = footer_height
    /\ footer[11] = {3}
    /\ AtMostRounded(4, 10)
    /\ \A a \in footer[footer_height] : a > 3 /\ a < MaxAlpha

====
